---- MODULE Spec2Model ----
(***************************************************************************)
(* Heading-control tasks (envs/JSBSim/tasks/heading_task.py) and the       *)
(* acceleration-overload termination unit                                  *)
(* (envs/JSBSim/termination_conditions/overload.py).                       *)
(*                                                                         *)
(* Real numbers are exact rationals, optionally times pi: [n, d, p] is     *)
(* (n / d) * pi^p with d > 0, kept in lowest terms.  Simulator time and    *)
(* accelerations are sampled at integer seconds and integer g.             *)
(***************************************************************************)
EXTENDS Integers, Sequences, FiniteSets, TLC

VARIABLES config, task, unit, sim, ret, stdout, everDone, term, call

vars == <<config, task, unit, sim, ret, stdout, everDone, term, call>>

----------------------------------------------------------------------------
(* Bounds of the model *)

\* simulated seconds after which the simulator is no longer advanced
MaxTime == 12

\* largest raw delta altitude, in feet, that the driver doubles up to
MaxRawAltitude == 4000

----------------------------------------------------------------------------
(* Exact arithmetic *)

Abs(x) == IF x < 0 THEN -x ELSE x

RECURSIVE Gcd(_, _)
Gcd(a, b) == IF b = 0 THEN a ELSE Gcd(b, a % b)

\* (n / d) * pi^p in lowest terms, d > 0
Num(n, d, p) ==
    LET s == IF d < 0 THEN -1 ELSE 1
        g == Gcd(Abs(n), Abs(d))
    IN  IF n = 0 THEN [n |-> 0, d |-> 1, p |-> 0]
        ELSE [n |-> s * (n \div g), d |-> s * (d \div g), p |-> p]

R(n, d) == Num(n, d, 0)
I(n) == Num(n, 1, 0)
Pi == Num(1, 1, 1)

RAdd(a, b) == Num(a.n * b.d + b.n * a.d, a.d * b.d, IF a.n = 0 THEN b.p ELSE a.p)
RSub(a, b) == RAdd(a, Num(-b.n, b.d, b.p))
RMul(a, b) == Num(a.n * b.n, a.d * b.d, a.p + b.p)
RDiv(a, b) == Num(a.n * b.d, a.d * b.n, a.p - b.p)
RLess(a, b) == a.n * b.d < b.n * a.d
RMax(a, b) == IF RLess(a, b) THEN b ELSE a
RMin(a, b) == IF RLess(b, a) THEN b ELSE a

----------------------------------------------------------------------------
(* Configuration: an attribute bag; a key that is not set is not in DOMAIN *)

Restrict(f, S) == [k \in S |-> f[k]]

getattr(cfg, key, default) == IF key \in DOMAIN cfg THEN cfg[key] ELSE default

ConfigKeySets ==
    { {},
      {"num_fighters"},
      {"acceleration_limit_x", "acceleration_limit_y", "acceleration_limit_z"},
      {"num_fighters", "acceleration_limit_x", "acceleration_limit_y",
       "acceleration_limit_z"},
      {"num_fighters", "acceleration_limit_z"},
      {"num_fighters", "acceleration_limit_x"} }

Configs ==
    { Restrict([num_fighters |-> nf, acceleration_limit_x |-> 11,
                acceleration_limit_y |-> 11, acceleration_limit_z |-> 9], S) :
        nf \in {1, 2}, S \in ConfigKeySets }

----------------------------------------------------------------------------
(* The overload unit *)

\* the literal 10.0 of the three getattr defaults, in g
DefaultAccelerationLimit == 10

\* faulty variant: the limits read as plain attributes, which fails on an absent key
OverloadInitStrict(cfg) ==
    IF {"acceleration_limit_x", "acceleration_limit_y", "acceleration_limit_z"}
           \subseteq DOMAIN cfg
    THEN [name |-> "Overload",
          acceleration_limit_x |-> cfg["acceleration_limit_x"],
          acceleration_limit_y |-> cfg["acceleration_limit_y"],
          acceleration_limit_z |-> cfg["acceleration_limit_z"]]
    ELSE [name |-> "AttributeError", acceleration_limit_x |-> 0,
          acceleration_limit_y |-> 0, acceleration_limit_z |-> 0]

OverloadInit(cfg) ==
    [name |-> "Overload",
     acceleration_limit_x |-> getattr(cfg, "acceleration_limit_x", DefaultAccelerationLimit),
     acceleration_limit_y |-> getattr(cfg, "acceleration_limit_y", DefaultAccelerationLimit),
     acceleration_limit_z |-> getattr(cfg, "acceleration_limit_z", DefaultAccelerationLimit)]

\* the grace period of _judge_overload, in simulated seconds
GraceTimeSec == 10

_judge_overload(self, s) ==
    IF s.simulation_sim_time_sec > GraceTimeSec
    THEN IF \/ Abs(s.accelerations_n_pilot_x_norm) > self.acceleration_limit_x
            \/ Abs(s.accelerations_n_pilot_y_norm) > self.acceleration_limit_y
            \/ Abs(s.accelerations_n_pilot_z_norm + 1) > self.acceleration_limit_z
         THEN TRUE
         ELSE FALSE
    ELSE FALSE

----------------------------------------------------------------------------
(* The task classes *)

TaskClasses == {"HeadingTask", "HeadingContinuousTask", "HeadingAndAltitudeTask"}

\* the methods each class body defines; the base of the three is BaseTask
ClassMethods ==
    [HeadingTask |-> {"__init__", "load_variables", "load_observation_space",
                      "load_action_space", "normalize_observation",
                      "normalize_action", "reset", "get_reward", "get_termination"},
     HeadingContinuousTask |-> {"__init__", "load_action_space", "normalize_action"},
     HeadingAndAltitudeTask |-> {"__init__"}]

ClassBase ==
    [HeadingTask |-> "BaseTask",
     HeadingContinuousTask |-> "HeadingTask",
     HeadingAndAltitudeTask |-> "HeadingTask"]

\* the class whose body supplies method m to an instance of cls
RECURSIVE Resolve(_, _)
Resolve(cls, m) ==
    IF cls = "BaseTask" THEN "BaseTask"
    ELSE IF m \in ClassMethods[cls] THEN cls
    ELSE Resolve(ClassBase[cls], m)

\* a termination unit built from the configuration; only Overload's fields
\* are known
Unit(name, cfg) == IF name = "Overload" THEN OverloadInit(cfg) ELSE [name |-> name]

\* the value getattr falls back to for num_fighters
DefaultNumFighters == 2

RewardFunctions(cfg) == <<[name |-> "HeadingReward"], [name |-> "AltitudeReward"]>>

\* faulty variant: the list declared with Timeout ahead of the other units
HeadingTerminationConditionsTimeoutFirst(cfg) ==
    <<Unit("Timeout", cfg), Unit("UnreachHeading", cfg), Unit("ExtremeState", cfg),
      Unit("Overload", cfg), Unit("LowAltitude", cfg)>>

HeadingTerminationConditions(cfg) ==
    <<Unit("UnreachHeading", cfg), Unit("ExtremeState", cfg), Unit("Overload", cfg),
      Unit("LowAltitude", cfg), Unit("Timeout", cfg)>>

\* faulty variant: the variant's list declared with Overload ahead of ExtremeState
HeadingAndAltitudeTerminationConditionsSwapped(cfg) ==
    <<Unit("UnreachHeadingAndAltitude", cfg), Unit("Overload", cfg),
      Unit("ExtremeState", cfg), Unit("LowAltitude", cfg), Unit("Timeout", cfg)>>

HeadingAndAltitudeTerminationConditions(cfg) ==
    <<Unit("UnreachHeadingAndAltitude", cfg), Unit("ExtremeState", cfg),
      Unit("Overload", cfg), Unit("LowAltitude", cfg), Unit("Timeout", cfg)>>

StateVar ==
    <<"delta_altitude", "delta_heading", "attitude_roll_rad", "attitude_pitch_rad",
      "velocities_v_north_fps", "velocities_v_east_fps", "velocities_v_down_fps",
      "velocities_vc_fps">>

ActionVar ==
    <<"fcs_aileron_cmd_norm", "fcs_elevator_cmd_norm", "fcs_rudder_cmd_norm",
      "fcs_throttle_cmd_norm">>

RenderVar ==
    <<"position_long_gc_deg", "position_lat_geod_deg", "position_h_sl_ft",
      "attitude_roll_rad", "attitude_pitch_rad", "attitude_heading_true_rad">>

ObservationSpace(num_agents) ==
    [i \in 1..num_agents |-> [space |-> "Box", low |-> I(-10), high |-> I(10), shape |-> 8]]

DiscreteActionSpace(num_agents) ==
    [i \in 1..num_agents |-> [space |-> "MultiDiscrete", nvec |-> <<41, 41, 41, 30>>]]

ContinuousActionSpace(num_agents) ==
    [i \in 1..num_agents |->
        [space |-> "Box", low |-> <<I(-1), I(-1), I(-1), R(4, 10)>>,
         high |-> <<I(1), I(1), I(1), R(9, 10)>>]]

\* self.load_action_space(), dispatched on the class of self
load_action_space(cls, num_agents) ==
    IF Resolve(cls, "load_action_space") = "HeadingContinuousTask"
    THEN ContinuousActionSpace(num_agents)
    ELSE DiscreteActionSpace(num_agents)

\* faulty variant: the guard accepts any positive number of fighters
ConstructionGuardLoose(num_fighters) == num_fighters >= 1

\* the construction guard of HeadingTask.__init__
ConstructionGuard(num_fighters) == num_fighters = 1

\* HeadingTask.__init__ run on an instance of cls.  attrs is the set of
\* instance attributes assigned when __init__ ends, normally or by the
\* failed assertion.  names is what the instance inherits for agent_names:
\* neither HeadingTask nor its subclasses assign it.
HeadingTaskInit(cls, cfg, names) ==
    LET num_fighters == getattr(cfg, "num_fighters", DefaultNumFighters)
        base == [status |-> "AssertionError", cls |-> cls,
                 num_fighters |-> num_fighters, num_agents |-> 0,
                 reward_functions |-> <<>>, termination_conditions |-> <<>>,
                 state_var |-> <<>>, action_var |-> <<>>, render_var |-> <<>>,
                 observation_space |-> <<>>, action_space |-> <<>>,
                 attrs |-> {"config", "num_fighters"},
                 has_agent_names |-> names.has, agent_names |-> names.val]
    IN  IF ~ConstructionGuard(num_fighters) THEN base
        ELSE [base EXCEPT
                !.status = "ok",
                !.num_agents = num_fighters,
                !.reward_functions = RewardFunctions(cfg),
                !.termination_conditions = HeadingTerminationConditions(cfg),
                !.state_var = StateVar,
                !.action_var = ActionVar,
                !.render_var = RenderVar,
                !.observation_space = ObservationSpace(num_fighters),
                !.action_space = load_action_space(cls, num_fighters),
                !.attrs = {"config", "num_fighters", "num_agents", "reward_functions",
                           "termination_conditions", "state_var", "action_var",
                           "render_var", "observation_space", "action_space"}]

\* cls(config): the __init__ the class resolves to
TaskInit(cls, cfg, names) ==
    LET t == HeadingTaskInit(cls, cfg, names)
    IN  IF cls = "HeadingAndAltitudeTask" /\ t.status = "ok"
        THEN [t EXCEPT !.termination_conditions =
                           HeadingAndAltitudeTerminationConditions(cfg)]
        ELSE t

NoTask ==
    [status |-> "none", cls |-> "", num_fighters |-> 0, num_agents |-> 0,
     reward_functions |-> <<>>, termination_conditions |-> <<>>,
     state_var |-> <<>>, action_var |-> <<>>, render_var |-> <<>>,
     observation_space |-> <<>>, action_space |-> <<>>, attrs |-> {},
     has_agent_names |-> FALSE, agent_names |-> <<>>]

\* what task.agent_names may be: no such attribute, or a list of names
AgentNamesChoices ==
    { [has |-> FALSE, val |-> <<>>], [has |-> TRUE, val |-> <<>>],
      [has |-> TRUE, val |-> <<"A0100">>] }

----------------------------------------------------------------------------
(* The simulator of the one controlled aircraft: env.sims = <<sim>> *)

AccX == {-12, 0, 10}
AccY == {0, 11}
AccZ == {-11, 0, 10}
SimDt == {5, 6}

SimInit ==
    [simulation_sim_time_sec |-> 0, accelerations_n_pilot_x_norm |-> 0,
     accelerations_n_pilot_y_norm |-> 0, accelerations_n_pilot_z_norm |-> 0]

\* agent ids that index env.sims
AgentIds == {0}

----------------------------------------------------------------------------
(* Overload.get_termination *)

NoUnit ==
    [name |-> "", acceleration_limit_x |-> 0, acceleration_limit_y |-> 0,
     acceleration_limit_z |-> 0]

NoRet == [kind |-> "none", done |-> FALSE, success |-> FALSE]

\* task.agent_names[agent_id] inside the f-string of the diagnostic
AgentNameLookup(t, agent_id) ==
    IF ~t.has_agent_names THEN [kind |-> "AttributeError", name |-> ""]
    ELSE IF agent_id + 1 > Len(t.agent_names) THEN [kind |-> "IndexError", name |-> ""]
    ELSE [kind |-> "ok", name |-> t.agent_names[agent_id + 1]]

\* faulty variant: a unit that latches, dropping its limits to 0 once it has triggered
OverloadGetTerminationLatching(self, t, sims, agent_id) ==
    LET done == _judge_overload(self, sims[agent_id + 1])
        look == AgentNameLookup(t, agent_id)
        latched == [self EXCEPT !.acceleration_limit_x = 0,
                                !.acceleration_limit_y = 0,
                                !.acceleration_limit_z = 0]
    IN  IF done /\ look.kind # "ok"
        THEN [ret |-> [kind |-> look.kind, done |-> FALSE, success |-> FALSE],
              out |-> <<>>, self |-> latched]
        ELSE [ret |-> [kind |-> "return", done |-> done, success |-> FALSE],
              out |-> IF done THEN <<look.name>> ELSE <<>>,
              self |-> IF done THEN latched ELSE self]

\* the outcome of get_termination: the returned (done, success) or the
\* exception that leaves the call, the lines printed, and the unit afterwards
OverloadGetTermination(self, t, sims, agent_id) ==
    LET done == _judge_overload(self, sims[agent_id + 1])
        look == AgentNameLookup(t, agent_id)
    IN  IF done /\ look.kind # "ok"
        THEN [ret |-> [kind |-> look.kind, done |-> FALSE, success |-> FALSE],
              out |-> <<>>, self |-> self]
        ELSE [ret |-> [kind |-> "return", done |-> done, success |-> FALSE],
              out |-> IF done THEN <<look.name>> ELSE <<>>, self |-> self]

----------------------------------------------------------------------------
(* Actions *)

NoTerm == [kind |-> "none", done |-> FALSE, success |-> FALSE, evaluated |-> 0,
           reports |-> <<>>]

NoCall == [op |-> "none", arg |-> <<>>, ret |-> <<>>]

Init ==
    /\ config \in Configs
    /\ task = NoTask
    /\ unit = NoUnit
    /\ sim = <<SimInit>>
    /\ ret = NoRet
    /\ stdout = <<>>
    /\ everDone = FALSE
    /\ term = NoTerm
    /\ call = NoCall

\* cls(config)
ConstructTask(cls, names) ==
    /\ task.status = "none"
    /\ task' = TaskInit(cls, config, names)
    /\ UNCHANGED <<config, unit, sim, ret, stdout, everDone, term, call>>

\* Overload(config)
ConstructOverload ==
    /\ unit = NoUnit
    /\ unit' = OverloadInit(config)
    /\ UNCHANGED <<config, task, sim, ret, stdout, everDone, term, call>>

\* the simulator advances one tick; the verdict of the previous tick is consumed
SimStep(dt, x, y, z) ==
    /\ sim[1].simulation_sim_time_sec + dt <= MaxTime
    /\ sim' = <<[simulation_sim_time_sec |-> sim[1].simulation_sim_time_sec + dt,
                 accelerations_n_pilot_x_norm |-> x,
                 accelerations_n_pilot_y_norm |-> y,
                 accelerations_n_pilot_z_norm |-> z]>>
    /\ ret' = NoRet
    /\ stdout' = <<>>
    /\ term' = NoTerm
    /\ UNCHANGED <<config, task, unit, everDone, call>>

\* unit.get_termination(task, env, agent_id)
OverloadCall(agent_id) ==
    /\ unit.name = "Overload"
    /\ task.status = "ok"
    /\ LET o == OverloadGetTermination(unit, task, sim, agent_id)
       IN  /\ ret' = o.ret
           /\ stdout' = o.out
           /\ unit' = o.self
           /\ everDone' = (everDone \/ (o.ret.kind = "return" /\ o.ret.done))
    /\ UNCHANGED <<config, task, sim, term, call>>

\* env.reset() followed by task.reset(env): the simulator restarts at time 0;
\* the overload unit defines no reset and has nothing to clear
Reset ==
    /\ task.status = "ok"
    /\ sim[1].simulation_sim_time_sec > 0
    /\ sim' = <<SimInit>>
    /\ ret' = NoRet
    /\ stdout' = <<>>
    /\ term' = NoTerm
    /\ UNCHANGED <<config, task, unit, everDone, call>>

Next ==
    \/ \E cls \in TaskClasses, names \in AgentNamesChoices : ConstructTask(cls, names)
    \/ ConstructOverload
    \/ \E dt \in SimDt, x \in AccX, y \in AccY, z \in AccZ : SimStep(dt, x, y, z)
    \/ \E a \in AgentIds : OverloadCall(a)
    \/ Reset

Spec == Init /\ [][Next]_vars

----------------------------------------------------------------------------
(* Task.get_termination: the scan over the task's termination units *)

\* what the units other than Overload may report on a tick
AbstractReports ==
    { <<[kind |-> "return", done |-> d1, success |-> s1],
        [kind |-> "return", done |-> d2, success |-> d2 /\ s2],
        NoRet,
        [kind |-> "return", done |-> d4, success |-> FALSE],
        [kind |-> "return", done |-> d5, success |-> FALSE]>> :
        d1 \in BOOLEAN, s1 \in BOOLEAN, d2 \in BOOLEAN, s2 \in BOOLEAN,
        d4 \in BOOLEAN, d5 \in BOOLEAN }

\* what each unit of the list reports when asked on this tick: the overload
\* unit by its code, the others as given
UnitReports(t, sims, agent_id, given) ==
    [i \in 1..Len(t.termination_conditions) |->
        IF t.termination_conditions[i].name = "Overload"
        THEN OverloadGetTermination(t.termination_conditions[i], t, sims, agent_id).ret
        ELSE given[i]]

\* units are asked in list order; the first done=true verdict is returned and
\* the units after it are not asked; an exception leaves the scan
RECURSIVE ScanTermination(_, _)
ScanTermination(reports, i) ==
    IF i > Len(reports)
    THEN [kind |-> "return", done |-> FALSE, success |-> FALSE, evaluated |-> Len(reports)]
    ELSE IF reports[i].kind # "return"
    THEN [kind |-> reports[i].kind, done |-> FALSE, success |-> FALSE, evaluated |-> i]
    ELSE IF reports[i].done
    THEN [kind |-> "return", done |-> TRUE, success |-> reports[i].success,
          evaluated |-> i]
    ELSE ScanTermination(reports, i + 1)

\* task.get_termination(env, agent_id)
TaskGetTermination(agent_id, given) ==
    /\ task.status = "ok"
    /\ LET reports == UnitReports(task, sim, agent_id, given)
           r == ScanTermination(reports, 1)
           asked == {i \in 1..r.evaluated :
                        task.termination_conditions[i].name = "Overload"}
       IN  /\ term' = [kind |-> r.kind, done |-> r.done, success |-> r.success,
                       evaluated |-> r.evaluated, reports |-> reports]
           /\ stdout' = IF asked # {} /\ reports[CHOOSE i \in asked : TRUE].done
                        THEN <<task.agent_names[agent_id + 1]>> ELSE <<>>
    /\ UNCHANGED <<config, task, unit, sim, ret, everDone, call>>

InitTask ==
    /\ config = [num_fighters |-> 1]
    /\ \E cls \in TaskClasses, names \in AgentNamesChoices :
          /\ names.has => names.val # <<>>
          /\ task = TaskInit(cls, config, names)
    /\ unit = NoUnit
    /\ sim = <<SimInit>>
    /\ ret = NoRet
    /\ stdout = <<>>
    /\ everDone = FALSE
    /\ term = NoTerm
    /\ call = NoCall

NextTask ==
    \/ \E dt \in SimDt, x \in AccX, y \in AccY, z \in AccZ : SimStep(dt, x, y, z)
    \/ \E a \in AgentIds, given \in AbstractReports : TaskGetTermination(a, given)
    \/ Reset

SpecTask == InitTask /\ [][NextTask]_vars

----------------------------------------------------------------------------
(* normalize_observation and normalize_action *)

\* faulty variant: component 5 scaled from raw component 4
HeadingTask_normalize_observation_Shifted(obsersvations) ==
    LET ego_obs_list == obsersvations[1]
    IN  << <<RDiv(RMul(ego_obs_list[1], R(304, 1000)), I(1000)),
             RMul(RDiv(ego_obs_list[2], I(180)), Pi),
             ego_obs_list[3],
             ego_obs_list[4],
             RDiv(RMul(ego_obs_list[5], R(304, 1000)), I(340)),
             RDiv(RMul(ego_obs_list[5], R(304, 1000)), I(340)),
             RDiv(RMul(ego_obs_list[7], R(304, 1000)), I(340)),
             RDiv(RMul(ego_obs_list[8], R(304, 1000)), I(340))>> >>

\* HeadingTask.normalize_observation: the (1, 8) array built from
\* obsersvations[0]
HeadingTask_normalize_observation(obsersvations) ==
    LET ego_obs_list == obsersvations[1]
    IN  << <<RDiv(RMul(ego_obs_list[1], R(304, 1000)), I(1000)),
             RMul(RDiv(ego_obs_list[2], I(180)), Pi),
             ego_obs_list[3],
             ego_obs_list[4],
             RDiv(RMul(ego_obs_list[5], R(304, 1000)), I(340)),
             RDiv(RMul(ego_obs_list[6], R(304, 1000)), I(340)),
             RDiv(RMul(ego_obs_list[7], R(304, 1000)), I(340)),
             RDiv(RMul(ego_obs_list[8], R(304, 1000)), I(340))>> >>

\* faulty variant: the index divided by the cardinality instead of cardinality - 1
DiscreteNormalizeByCardinality(nvec, action) ==
    <<RSub(RDiv(RMul(I(action[1]), I(2)), I(nvec[1])), I(1)),
      RSub(RDiv(RMul(I(action[2]), I(2)), I(nvec[2])), I(1)),
      RSub(RDiv(RMul(I(action[3]), I(2)), I(nvec[3])), I(1)),
      RAdd(RDiv(RMul(I(action[4]), R(1, 2)), I(nvec[4])), R(4, 10))>>

\* _normalize of HeadingTask.normalize_action, nvec being action_space[0].nvec
DiscreteNormalize(nvec, action) ==
    <<RSub(RDiv(RMul(I(action[1]), I(2)), RSub(I(nvec[1]), I(1))), I(1)),
      RSub(RDiv(RMul(I(action[2]), I(2)), RSub(I(nvec[2]), I(1))), I(1)),
      RSub(RDiv(RMul(I(action[3]), I(2)), RSub(I(nvec[3]), I(1))), I(1)),
      RAdd(RDiv(RMul(I(action[4]), R(1, 2)), RSub(I(nvec[4]), I(1))), R(4, 10))>>

\* np.clip(a, a_min, a_max)
Clip(a, a_min, a_max) == RMin(RMax(a, a_min), a_max)

ClipLow == <<I(-1), I(-1), I(-1), R(4, 10)>>
ClipHigh == <<I(1), I(1), I(1), R(9, 10)>>

\* faulty variant: only the upper bounds are applied
ContinuousNormalizeUpperOnly(action) ==
    [k \in 1..4 |-> RMin(action[k], ClipHigh[k])]

\* _normalize of HeadingContinuousTask.normalize_action
ContinuousNormalize(action) ==
    [k \in 1..4 |-> Clip(action[k], ClipLow[k], ClipHigh[k])]

\* t.normalize_action(env, actions): one row per fighter
normalize_action(t, actions) ==
    IF Resolve(t.cls, "normalize_action") = "HeadingContinuousTask"
    THEN [agent \in 1..t.num_fighters |-> ContinuousNormalize(actions[agent])]
    ELSE [agent \in 1..t.num_fighters |->
             DiscreteNormalize(t.action_space[1].nvec, actions[agent])]

IsDiscrete(t) == t.status = "ok" /\ t.action_space[1].space = "MultiDiscrete"
IsContinuous(t) == t.status = "ok" /\ t.action_space[1].space = "Box"

\* index vectors: one dimension over its whole range, the others at an end
DiscreteActions ==
    LET nvec == <<41, 41, 41, 30>>
        lowest == <<0, 0, 0, 0>>
        highest == [k \in 1..4 |-> nvec[k] - 1]
    IN  UNION { { [base EXCEPT ![k] = i] : i \in 0..(nvec[k] - 1) } :
                  base \in {lowest, highest}, k \in 1..4 }

\* raw continuous actions inside, on and outside the bounds
ContinuousActions ==
    { <<a, e, r, t>> :
        a \in {I(-2), I(-1), I(0), I(1), I(2)},
        e \in {I(-2), R(1, 2)},
        r \in {I(0), I(2)},
        t \in {I(0), R(4, 10), R(1, 2), R(9, 10), I(1)} }

\* raw state vectors: feet, degrees, radians, feet per second
RawObservations ==
    { <<I(h), I(dh), R(r, 10), R(-1, 4), I(340), I(vn), I(17), I(680)>> :
        h \in {-1000, 0, 500, 1000}, dh \in {-180, 45}, r \in {0, 3},
        vn \in {-340, 100} }

NormalizeObservation(raw) ==
    /\ task.status = "ok"
    /\ call' = [op |-> "normalize_observation", arg |-> <<raw>>,
                ret |-> HeadingTask_normalize_observation(<<raw>>)]
    /\ UNCHANGED <<config, task, unit, sim, ret, stdout, everDone, term>>

\* the next raw state has twice the delta altitude and is otherwise the same
DoubleAltitude ==
    /\ call.op = "normalize_observation"
    /\ Abs(call.arg[1][1].n) * 2 <= MaxRawAltitude * call.arg[1][1].d
    /\ LET raw == [call.arg[1] EXCEPT ![1] = RMul(I(2), @)]
       IN  call' = [op |-> "normalize_observation", arg |-> <<raw>>,
                    ret |-> HeadingTask_normalize_observation(<<raw>>)]
    /\ UNCHANGED <<config, task, unit, sim, ret, stdout, everDone, term>>

NormalizeAction(action) ==
    /\ task.status = "ok"
    /\ call' = [op |-> "normalize_action", arg |-> <<action>>,
                ret |-> normalize_action(task, <<action>>)]
    /\ UNCHANGED <<config, task, unit, sim, ret, stdout, everDone, term>>

\* the continuous task is handed its own previous output
ClampAgain ==
    /\ IsContinuous(task)
    /\ call.op = "normalize_action"
    /\ call' = [op |-> "normalize_action", arg |-> call.ret,
                ret |-> normalize_action(task, call.ret)]
    /\ UNCHANGED <<config, task, unit, sim, ret, stdout, everDone, term>>

InitNorm ==
    /\ config = [num_fighters |-> 1]
    /\ \E cls \in TaskClasses :
          task = TaskInit(cls, config, [has |-> TRUE, val |-> <<"A0100">>])
    /\ unit = NoUnit
    /\ sim = <<SimInit>>
    /\ ret = NoRet
    /\ stdout = <<>>
    /\ everDone = FALSE
    /\ term = NoTerm
    /\ call = NoCall

NextNorm ==
    \/ \E raw \in RawObservations : NormalizeObservation(raw)
    \/ DoubleAltitude
    \/ \E action \in DiscreteActions : IsDiscrete(task) /\ NormalizeAction(action)
    \/ \E action \in ContinuousActions : IsContinuous(task) /\ NormalizeAction(action)
    \/ ClampAgain

SpecNorm == InitNorm /\ [][NextNorm]_vars

----------------------------------------------------------------------------
(* Properties of the overload unit *)

\* some axis is over its limit, the z axis after adding 1
AxisExceeded(lx, ly, lz, s) ==
    \/ s.accelerations_n_pilot_x_norm > lx \/ s.accelerations_n_pilot_x_norm < -lx
    \/ s.accelerations_n_pilot_y_norm > ly \/ s.accelerations_n_pilot_y_norm < -ly
    \/ s.accelerations_n_pilot_z_norm + 1 > lz \/ s.accelerations_n_pilot_z_norm + 1 < -lz

\* the limits the configuration asks for
LimitOf(key) == IF key \in DOMAIN config THEN config[key] ELSE 10

OverloadPredicate ==
    /\ sim[1].simulation_sim_time_sec > 10
    /\ AxisExceeded(LimitOf("acceleration_limit_x"), LimitOf("acceleration_limit_y"),
                    LimitOf("acceleration_limit_z"), sim[1])

ReportsDone == ret.kind = "return" /\ ret.done

\* C2: in the tick of a get_termination call, the unit never reports done=true
\* while simulated time <= 10 s; after 10 s it reports done=true exactly when
\* an axis is over its limit (z after the +1 offset); a returned success is
\* always false.
C2_Claim ==
    ret.kind # "none" =>
        /\ sim[1].simulation_sim_time_sec <= 10 => ~ReportsDone
        /\ sim[1].simulation_sim_time_sec > 10 => (ReportsDone <=> OverloadPredicate)
        /\ ret.kind = "return" => ret.success = FALSE

\* C7: whenever the overload predicate is true for the task and agent of a
\* call, the call returns (done=true, success=false): the diagnostic neither
\* changes the verdict nor prevents its return.
C7_Claim ==
    (ret.kind # "none" /\ OverloadPredicate) =>
        ret = [kind |-> "return", done |-> TRUE, success |-> FALSE]

\* every verdict the unit returns is (OverloadPredicate, false), and a call
\* made while the predicate is false always returns
ReturnedVerdictInv ==
    /\ ret.kind = "return" => (ret.done = OverloadPredicate /\ ret.success = FALSE)
    /\ (ret.kind # "none" /\ ~OverloadPredicate) => ret.kind = "return"

\* C10: the unit keeps no state and does not latch: every returned verdict is
\* the one a freshly built unit gives on the simulator's current time and
\* accelerations, whatever was reported before and across resets; a call
\* changes no simulator property and no field of the unit, the task or the
\* configuration.
C10_Theorem ==
    /\ []ReturnedVerdictInv
    /\ [][unit.name = "Overload" => unit' = unit]_vars
    /\ [][ret'.kind # "none" =>
            (sim' = sim /\ task' = task /\ unit' = unit /\ config' = config)]_vars

\* a not-done verdict after the grace period from a unit that reported done before
C10_Witness ==
    /\ everDone
    /\ ret.kind = "return" /\ ~ret.done
    /\ sim[1].simulation_sim_time_sec > 10

----------------------------------------------------------------------------
(* Properties of construction *)

NumFightersIs(n) == "num_fighters" \in DOMAIN config /\ config["num_fighters"] = n

Declarations ==
    {"state_var", "action_var", "render_var", "observation_space", "action_space"}

\* C4: constructing with num_fighters=2 raises the assertion before any
\* variable, observation-space or action-space declaration is loaded;
\* with num_fighters=1 construction succeeds with exactly one
\* observation-space entry and one action-space entry.
C4_Theorem ==
    task.status # "none" =>
        /\ NumFightersIs(2) =>
              /\ task.status = "AssertionError"
              /\ task.attrs \cap Declarations = {}
              /\ task.observation_space = <<>> /\ task.action_space = <<>>
              /\ task.state_var = <<>> /\ task.action_var = <<>>
        /\ NumFightersIs(1) =>
              /\ task.status = "ok"
              /\ Len(task.observation_space) = 1
              /\ Len(task.action_space) = 1

C4_Witness == task.status = "AssertionError" /\ NumFightersIs(2)

OmitsOptionalKeys == DOMAIN config = {}

\* C5 as claimed: with num_fighters and the three limits omitted, the defaults
\* (2 and 10.0 g) are used and both the heading task and the overload unit are
\* constructed without error.
C5_Claim ==
    OmitsOptionalKeys =>
        /\ task.status # "none" => (task.status = "ok" /\ task.num_fighters = 2)
        /\ unit # NoUnit =>
              /\ unit.name = "Overload"
              /\ unit.acceleration_limit_x = 10
              /\ unit.acceleration_limit_y = 10
              /\ unit.acceleration_limit_z = 10

\* C5 amended: reading an absent key never raises and yields the default
\* (num_fighters 2, each limit 10.0 g); the overload unit is constructed
\* without error, while the heading task, taking num_fighters 2, fails its
\* construction guard.
C5_Theorem ==
    /\ unit # NoUnit =>
          /\ unit.name = "Overload"
          /\ \A k \in {"acceleration_limit_x", "acceleration_limit_y",
                       "acceleration_limit_z"} :
                k \notin DOMAIN config => unit[k] = 10
    /\ (task.status # "none" /\ "num_fighters" \notin DOMAIN config) =>
          (task.num_fighters = 2 /\ task.status = "AssertionError")

C5_Witness ==
    OmitsOptionalKeys /\ unit.name = "Overload" /\ task.status = "AssertionError"

\* the names of a list of units
Names(units) == [i \in 1..Len(units) |-> units[i].name]

InheritedFields(t) ==
    <<t.status, t.num_fighters, t.num_agents, t.reward_functions, t.state_var,
      t.action_var, t.render_var, t.observation_space, t.attrs>>

TaskMethods ==
    {"load_variables", "load_observation_space", "load_action_space",
     "normalize_observation", "normalize_action", "reset", "get_reward",
     "get_termination"}

\* C8: a HeadingContinuousTask differs from a HeadingTask built from the same
\* configuration only in its action space and normalize_action; a
\* HeadingAndAltitudeTask only in its termination list, which is
\* UnreachHeadingAndAltitude, ExtremeState, Overload, LowAltitude, Timeout.
\* Reward units, variable declarations, observation space, the other methods
\* and the construction guard are those of HeadingTask.
C8_Theorem ==
    LET h == TaskInit("HeadingTask", config,
                      [has |-> task.has_agent_names, val |-> task.agent_names])
    IN  /\ task.cls = "HeadingContinuousTask" =>
              /\ InheritedFields(task) = InheritedFields(h)
              /\ task.termination_conditions = h.termination_conditions
              /\ task.status = "ok" =>
                    /\ Len(task.action_space) = 1
                    /\ task.action_space[1].space = "Box"
                    /\ h.action_space[1].space = "MultiDiscrete"
              /\ \A m \in TaskMethods \ {"load_action_space", "normalize_action"} :
                    Resolve(task.cls, m) = "HeadingTask"
              /\ Resolve(task.cls, "normalize_action") = "HeadingContinuousTask"
        /\ task.cls = "HeadingAndAltitudeTask" =>
              /\ InheritedFields(task) = InheritedFields(h)
              /\ task.action_space = h.action_space
              /\ task.status = "ok" =>
                    /\ Names(task.termination_conditions) =
                          <<"UnreachHeadingAndAltitude", "ExtremeState", "Overload",
                            "LowAltitude", "Timeout">>
                    /\ Names(h.termination_conditions) =
                          <<"UnreachHeading", "ExtremeState", "Overload",
                            "LowAltitude", "Timeout">>
                    /\ \A i \in 2..5 :
                          task.termination_conditions[i] = h.termination_conditions[i]
              /\ \A m \in TaskMethods : Resolve(task.cls, m) = "HeadingTask"

C8_Witness ==
    /\ task.cls = "HeadingAndAltitudeTask" /\ task.status = "ok"
    /\ task.termination_conditions[1].name = "UnreachHeadingAndAltitude"

----------------------------------------------------------------------------
(* Properties of Task.get_termination *)

\* every unit before position i reported done=false
NoneDoneBefore(i) ==
    \A j \in 1..(i - 1) : term.reports[j].kind = "return" /\ ~term.reports[j].done

FirstDone(i) ==
    /\ NoneDoneBefore(i)
    /\ term.reports[i].kind = "return" /\ term.reports[i].done

\* C1: get_termination asks the units in declared order and returns the verdict
\* of the first one reporting done=true without asking the later ones; when
\* the units at index 0 and 1 both report done=true the result is index 0's;
\* when every unit reports done=false the result is (false, false).  The
\* declared order of HeadingTask is UnreachHeading, ExtremeState, Overload,
\* LowAltitude, Timeout.
C1_Theorem ==
    /\ task.cls = "HeadingTask" =>
          Names(task.termination_conditions) =
              <<"UnreachHeading", "ExtremeState", "Overload", "LowAltitude", "Timeout">>
    /\ term.kind # "none" =>
          /\ \A i \in 1..Len(term.reports) :
                FirstDone(i) =>
                    /\ term.kind = "return" /\ term.done
                    /\ term.success = term.reports[i].success
                    /\ term.evaluated = i
          /\ (term.reports[1].done /\ term.reports[2].done) =>
                /\ term.kind = "return" /\ term.done
                /\ term.success = term.reports[1].success
                /\ term.evaluated = 1
          /\ NoneDoneBefore(Len(term.reports) + 1) =>
                /\ term.kind = "return" /\ ~term.done /\ ~term.success

\* units 0 and 1 both report done=true with different success flags
C1_Witness ==
    /\ term.kind = "return" /\ task.cls = "HeadingTask"
    /\ term.reports[1].done /\ term.reports[2].done
    /\ term.reports[1].success /\ ~term.reports[2].success
    /\ term.success

----------------------------------------------------------------------------
(* Properties of the normalizations *)

DiscreteCall == IsDiscrete(task) /\ call.op = "normalize_action"
ContinuousCall == IsContinuous(task) /\ call.op = "normalize_action"
ObservationCall == call.op = "normalize_observation"

\* C3: with nvec = [41, 41, 41, 30] and ranges [-1,1], [-1,1], [-1,1],
\* [0.4,0.9], the output for dimension k at index i is
\* lo_k + i*(hi_k - lo_k)/(nvec_k - 1): lo_k at i = 0, hi_k at i = nvec_k - 1.
C3_Theorem ==
    DiscreteCall =>
        LET nvec == <<41, 41, 41, 30>>
            lo == <<I(-1), I(-1), I(-1), R(2, 5)>>
            hi == <<I(1), I(1), I(1), R(9, 10)>>
        IN  /\ task.action_space[1].nvec = nvec
            /\ Len(call.ret) = 1 /\ Len(call.ret[1]) = 4
            /\ \A k \in 1..4 :
                  LET i == call.arg[1][k]
                  IN  /\ call.ret[1][k] =
                            RAdd(lo[k], RDiv(RMul(I(i), RSub(hi[k], lo[k])),
                                             I(nvec[k] - 1)))
                      /\ i = 0 => call.ret[1][k] = lo[k]
                      /\ i = nvec[k] - 1 => call.ret[1][k] = hi[k]

\* the throttle at its last index and the aileron at its first
C3_Witness ==
    /\ DiscreteCall
    /\ call.arg[1][4] = 29 /\ call.ret[1][4] = R(9, 10)
    /\ call.arg[1][1] = 0 /\ call.ret[1][1] = I(-1)

InBounds(x, k) ==
    LET lo == <<I(-1), I(-1), I(-1), R(2, 5)>>
        hi == <<I(1), I(1), I(1), R(9, 10)>>
    IN  ~RLess(x, lo[k]) /\ ~RLess(hi[k], x)

\* C6: the continuous normalize_action clamps each component into [-1,1],
\* [-1,1], [-1,1], [0.4,0.9]: an input inside the bounds passes unchanged, one
\* outside is set to the nearest bound, and clamping an output again returns it.
C6_Theorem ==
    /\ [](ContinuousCall =>
            /\ Len(call.ret) = 1 /\ Len(call.ret[1]) = 4
            /\ \A k \in 1..4 :
                  LET x == call.arg[1][k]
                      y == call.ret[1][k]
                      lo == <<I(-1), I(-1), I(-1), R(2, 5)>>
                      hi == <<I(1), I(1), I(1), R(9, 10)>>
                  IN  /\ InBounds(y, k)
                      /\ InBounds(x, k) => y = x
                      /\ RLess(x, lo[k]) => y = lo[k]
                      /\ RLess(hi[k], x) => y = hi[k])
    /\ [][(ContinuousCall /\ call'.op = "normalize_action" /\ call'.arg = call.ret)
            => call'.ret = call.ret]_vars

\* a throttle below 0.4 raised to 0.4 and an aileron above 1 lowered to 1
C6_Witness ==
    /\ ContinuousCall
    /\ call.arg[1][4] = I(0) /\ call.ret[1][4] = R(2, 5)
    /\ call.arg[1][1] = I(2) /\ call.ret[1][1] = I(1)

\* the fixed factor of each observation component
ObservationFactor ==
    <<R(304, 1000000), RDiv(Pi, I(180)), I(1), I(1), R(304, 340000),
      R(304, 340000), R(304, 340000), R(304, 340000)>>

\* C9: observation component j is raw component j times a fixed factor (1 for
\* roll and pitch), whatever was computed before; doubling the raw delta
\* altitude doubles component 0 and leaves the other seven unchanged.
C9_Theorem ==
    /\ [](ObservationCall =>
            /\ Len(call.ret) = 1 /\ Len(call.ret[1]) = 8 /\ Len(StateVar) = 8
            /\ \A j \in 1..8 :
                  call.ret[1][j] = RMul(ObservationFactor[j], call.arg[1][j])
            /\ call.ret[1][3] = call.arg[1][3]
            /\ call.ret[1][4] = call.arg[1][4])
    /\ [][(/\ ObservationCall
           /\ call'.op = "normalize_observation"
           /\ call'.arg[1] = [call.arg[1] EXCEPT ![1] = RMul(I(2), @)])
            => /\ call'.ret[1][1] = RMul(I(2), call.ret[1][1])
               /\ \A j \in 2..8 : call'.ret[1][j] = call.ret[1][j]]_vars

\* 2000 ft of delta altitude, reached only by doubling 1000 ft, observed as 0.608
C9_Witness ==
    /\ ObservationCall
    /\ call.arg[1][1] = I(2000) /\ call.ret[1][1] = R(608, 1000)
    /\ call.arg[1][6] = I(-340)

====
